---- MODULE Spec2Model ----
(***************************************************************************)
(* A model of cas2trn: the configuration validator (config.go), the record *)
(* transformer (transact.go), the rendering of a transaction, and main     *)
(* with parseConfig and translateStatement (config.go).                    *)
(*                                                                         *)
(* Strings are TLA+ strings; an amount (float64 in the source) is an exact *)
(* decimal [m |-> mantissa, e |-> fraction digits], normalised so that     *)
(* equal numbers have equal representations.  The decimal inputs used here *)
(* have far fewer than 15 significant digits, for which float64 parsing    *)
(* followed by shortest round-trip formatting returns the same decimal.    *)
(***************************************************************************)
EXTENDS Integers, Sequences, FiniteSets, TLC

VARIABLES
    cfg,      \* the configuration (type config)
    cfgErr,   \* the error returned by cfg.isValid(), "unset" before the call
    fields,   \* the fields of the CSV record handed to transact
    trn,      \* the transaction (type transact)
    err,      \* the error returned by trn.transact(), "unset" before the call
    line,     \* the value returned by trn.string(), "unset" before the call
    pc,       \* position of the run
    nEdits,   \* number of assignments made to the inputs so far
    flags,    \* the values of the command line flags (package flag)
    args,     \* flag.Args(): the statement files named on the command line
    argI,     \* number of statement files main has opened so far
    stmt,     \* what reader.Read() returns, call by call, for the statement
    pos,      \* number of calls of reader.Read() answered from stmt so far
    stdout,   \* the lines written to os.Stdout
    stderr,   \* the lines written to os.Stderr
    mainErr,  \* the variable err of main
    exit      \* the exit status of the program, "running" before it ends

\* the state of a run of main, which the tests of isValid and of transact
\* leave alone
runVars == <<flags, args, argI, stmt, pos, stdout, stderr, mainErr, exit>>

vars == <<cfg, cfgErr, fields, trn, err, line, pc, nEdits,
          flags, args, argI, stmt, pos, stdout, stderr, mainErr, exit>>

-----------------------------------------------------------------------------
(* Bounds of the model *)

\* the largest number of assignments to fields of a fixture configuration
MaxCfgEdits == 2

\* the largest number of assignments to fields of a fixture record
MaxRowEdits == 2

-----------------------------------------------------------------------------
(* config.go: constants and errors *)

minNFields == 3

maxNFields == 20

nIndexes == 7

MaxUint8 == 255

nil == "nil"

errAmountOpt == "amount field index, or credit and debit indexes cannot both be zero"

errDateI == "date field index cannot be zero"

errDateFormat == "date format in input CSV record must be Go style"

errIndexUnique == "field indexes cannot share a non-zero value"

errIndexRange == "field index is out of range"

errMemoI == "memo field index cannot be zero"

errNFieldsRange == "number of fields in input CSV record is out of range"

errThisAcctOpt == "this account and this account index cannot be empty string and zero respectively"

\* a run-time panic of the Go runtime: index out of range
panicIndex == "panic: index out of range"

-----------------------------------------------------------------------------
(* config.go: the fixtures of the tests *)

kbFull ==
    [nFields |-> 16,
     amountI |-> 15, creditI |-> 13, dateI |-> 2, debitI |-> 14,
     memoI |-> 3, otherAcctI |-> 12, thisAcctI |-> 1,
     dateFormat |-> "02-01-2006", thisAcct |-> ""]

mini ==
    [nFields |-> 3,
     amountI |-> 3, creditI |-> 0, dateI |-> 1, debitI |-> 0,
     memoI |-> 2, otherAcctI |-> 0, thisAcctI |-> 0,
     dateFormat |-> "2006-01-02", thisAcct |-> "Mini"]

pcu ==
    [nFields |-> 5,
     amountI |-> 0, creditI |-> 4, dateI |-> 1, debitI |-> 3,
     memoI |-> 2, otherAcctI |-> 0, thisAcctI |-> 0,
     dateFormat |-> "02/01/2006", thisAcct |-> "Assets:Current:PCUS1"]

-----------------------------------------------------------------------------
(* config.go: validation of a configuration *)

\* the array inxs of areIndexesValid
inxs(c) ==
    <<c.amountI, c.creditI, c.dateI, c.debitI, c.memoI, c.otherAcctI, c.thisAcctI>>

\* the loop of areIndexesValid without the case cfg.nFields < val
RECURSIVE areIndexesValidLoop_NoRange(_, _, _)
areIndexesValidLoop_NoRange(c, i, inUse) ==
    IF i > nIndexes THEN nil
    ELSE LET val == inxs(c)[i] IN
         IF val = 0 THEN areIndexesValidLoop_NoRange(c, i + 1, inUse)
         ELSE IF val > maxNFields THEN panicIndex
         ELSE IF val \in inUse THEN errIndexUnique
         ELSE areIndexesValidLoop_NoRange(c, i + 1, inUse \cup {val})

\* the loop of areIndexesValid from its i-th iteration, inUse being the set
\* of the values val with inUse[val] = true
RECURSIVE areIndexesValidLoop(_, _, _)
areIndexesValidLoop(c, i, inUse) ==
    IF i > nIndexes THEN nil
    ELSE LET val == inxs(c)[i] IN
         IF c.nFields < val THEN errIndexRange
         ELSE IF val = 0 THEN areIndexesValidLoop(c, i + 1, inUse)
         ELSE IF val > maxNFields THEN panicIndex
         ELSE IF val \in inUse THEN errIndexUnique
         ELSE areIndexesValidLoop(c, i + 1, inUse \cup {val})

areIndexesValid(c) == areIndexesValidLoop(c, 1, {})

\* areOptionsValid with && written for || in the amount condition
areOptionsValid_AndForOr(c) ==
    IF c.thisAcct = "" /\ c.thisAcctI = 0 THEN errThisAcctOpt
    ELSE IF c.amountI = 0 /\ (c.creditI = 0 /\ c.debitI = 0) THEN errAmountOpt
    ELSE nil

areOptionsValid(c) ==
    IF c.thisAcct = "" /\ c.thisAcctI = 0 THEN errThisAcctOpt
    ELSE IF c.amountI = 0 /\ (c.creditI = 0 \/ c.debitI = 0) THEN errAmountOpt
    ELSE nil

\* isValid with the memo index checked before the date index
isValid_MemoFirst(c) ==
    IF c.dateFormat = "" THEN errDateFormat
    ELSE IF c.nFields < minNFields \/ maxNFields < c.nFields THEN errNFieldsRange
    ELSE IF areIndexesValid(c) # nil THEN areIndexesValid(c)
    ELSE IF c.memoI = 0 THEN errMemoI
    ELSE IF c.dateI = 0 THEN errDateI
    ELSE IF areOptionsValid(c) # nil THEN areOptionsValid(c)
    ELSE nil

isValid(c) ==
    IF c.dateFormat = "" THEN errDateFormat
    ELSE IF c.nFields < minNFields \/ maxNFields < c.nFields THEN errNFieldsRange
    ELSE IF areIndexesValid(c) # nil THEN areIndexesValid(c)
    ELSE IF c.dateI = 0 THEN errDateI
    ELSE IF c.memoI = 0 THEN errMemoI
    ELSE IF areOptionsValid(c) # nil THEN areOptionsValid(c)
    ELSE nil

-----------------------------------------------------------------------------
(* transact.go: errors *)

\* const zero = 0.00
zero == [m |-> 0, e |-> 0]

errAmount == "amount cannot be zero"

\* declared by the first of the two versions of transact.go only; the
\* second version, the one config.go compiles with, never returns it
errCreditDebit == "credit and debit cannot both be empty string or non-empty string"

errMemo == "memo cannot be empty string"

errNFields == "wrong number of fields"

errThisAcct == "this account cannot be empty string"

\* the error of strconv.ParseFloat, wrapped by parseFloat64
errParseFloat == "parseFloat64: strconv.ParseFloat: invalid syntax"

\* the error of time.Parse, wrapped by parseDate
errParseDate == "parseDate: parsing time: cannot parse"

-----------------------------------------------------------------------------
(* Decimal numbers and their text: strconv.ParseFloat and                  *)
(* strconv.FormatFloat(v, 'f', -1, 64) on plain decimals (an optional      *)
(* sign, digits, at most one point).  Exponents, hexadecimal forms,        *)
(* infinities and NaN are not among the inputs of this model.              *)

DigitChars == <<"0", "1", "2", "3", "4", "5", "6", "7", "8", "9">>

IsDigit(ch) == \E d \in 1 .. 10 : DigitChars[d] = ch

DigitVal(ch) == (CHOOSE d \in 1 .. 10 : DigitChars[d] = ch) - 1

CharAt(s, i) == SubSeq(s, i, i)

AllDigits(s) == \A i \in 1 .. Len(s) : IsDigit(CharAt(s, i))

RECURSIVE DigitsVal(_)
DigitsVal(s) ==
    IF Len(s) = 0 THEN 0
    ELSE DigitsVal(SubSeq(s, 1, Len(s) - 1)) * 10 + DigitVal(CharAt(s, Len(s)))

RECURSIVE Pow10(_)
Pow10(n) == IF n = 0 THEN 1 ELSE 10 * Pow10(n - 1)

\* the same number without trailing zeros in its fraction
RECURSIVE Normalise(_)
Normalise(v) ==
    IF v.m = 0 THEN zero
    ELSE IF v.e > 0 /\ v.m % 10 = 0 THEN Normalise([m |-> v.m \div 10, e |-> v.e - 1])
    ELSE v

\* math.Abs
Abs(v) == [m |-> IF v.m < 0 THEN 0 - v.m ELSE v.m, e |-> v.e]

\* v * minus1
Negate(v) == [m |-> 0 - v.m, e |-> v.e]

\* strconv.ParseFloat(float, 64)
ParseFloat(float) ==
    LET signed == Len(float) > 0 /\ CharAt(float, 1) \in {"+", "-"}
        body   == IF signed THEN SubSeq(float, 2, Len(float)) ELSE float
        points == {i \in 1 .. Len(body) : CharAt(body, i) = "."}
        point  == IF points = {} THEN Len(body) + 1
                  ELSE CHOOSE i \in points : \A j \in points : i <= j
        int    == SubSeq(body, 1, point - 1)
        frac   == SubSeq(body, point + 1, Len(body))
        ok     == AllDigits(int) /\ AllDigits(frac) /\ Len(int) + Len(frac) >= 1
        mag    == DigitsVal(int \o frac)
        sgn    == IF signed /\ CharAt(float, 1) = "-" THEN 0 - 1 ELSE 1
    IN  IF ok THEN [val |-> Normalise([m |-> sgn * mag, e |-> Len(frac)]), ok |-> TRUE]
        ELSE [val |-> zero, ok |-> FALSE]

RECURSIVE NatToStr(_)
NatToStr(n) ==
    IF n < 10 THEN DigitChars[n + 1]
    ELSE NatToStr(n \div 10) \o DigitChars[(n % 10) + 1]

\* n written with at least w digits
RECURSIVE Pad(_, _)
Pad(n, w) ==
    IF w <= 1 THEN NatToStr(n)
    ELSE IF n < Pow10(w - 1) THEN "0" \o Pad(n, w - 1)
    ELSE NatToStr(n)

\* strconv.FormatFloat(v, 'f', -1, 64)
FormatFloat(v) ==
    LET n   == Normalise(v)
        mag == Abs(n).m
        int == mag \div Pow10(n.e)
        fr  == mag % Pow10(n.e)
    IN  (IF n.m < 0 THEN "-" ELSE "")
            \o NatToStr(int)
            \o (IF n.e = 0 THEN "" ELSE "." \o Pad(fr, n.e))

-----------------------------------------------------------------------------
(* Dates: time.Parse(layout, value) and Time.Format(time.DateOnly) for     *)
(* layouts made of the elements "2006", "01" and "02" and literal text.    *)

HasPrefix(s, prefix) ==
    Len(s) >= Len(prefix) /\ SubSeq(s, 1, Len(prefix)) = prefix

Drop(s, n) == SubSeq(s, n + 1, Len(s))

isLeap(year) == year % 4 = 0 /\ (year % 100 # 0 \/ year % 400 = 0)

daysIn(month, year) ==
    IF month = 2 THEN (IF isLeap(year) THEN 29 ELSE 28)
    ELSE IF month \in {4, 6, 9, 11} THEN 30
    ELSE 31

\* the scan of time.Parse over layout and value; t holds the year, the
\* month and the day read so far
RECURSIVE ParseLayout(_, _, _)
ParseLayout(layout, value, t) ==
    IF Len(layout) = 0
    THEN [t EXCEPT !.ok = (Len(value) = 0)]
    ELSE IF HasPrefix(layout, "2006")
    THEN (IF Len(value) >= 4 /\ AllDigits(SubSeq(value, 1, 4))
          THEN ParseLayout(Drop(layout, 4), Drop(value, 4),
                           [t EXCEPT !.year = DigitsVal(SubSeq(value, 1, 4))])
          ELSE [t EXCEPT !.ok = FALSE])
    ELSE IF HasPrefix(layout, "01")
    THEN (IF Len(value) >= 2 /\ AllDigits(SubSeq(value, 1, 2))
          THEN ParseLayout(Drop(layout, 2), Drop(value, 2),
                           [t EXCEPT !.month = DigitsVal(SubSeq(value, 1, 2))])
          ELSE [t EXCEPT !.ok = FALSE])
    ELSE IF HasPrefix(layout, "02")
    THEN (IF Len(value) >= 2 /\ AllDigits(SubSeq(value, 1, 2))
          THEN ParseLayout(Drop(layout, 2), Drop(value, 2),
                           [t EXCEPT !.day = DigitsVal(SubSeq(value, 1, 2))])
          ELSE [t EXCEPT !.ok = FALSE])
    ELSE (IF Len(value) >= 1 /\ CharAt(value, 1) = CharAt(layout, 1)
          THEN ParseLayout(Drop(layout, 1), Drop(value, 1), t)
          ELSE [t EXCEPT !.ok = FALSE])

\* time.Parse: elements omitted from the layout are zero or, when zero is
\* impossible, one
TimeParse(layout, value) ==
    LET t == ParseLayout(layout, value, [year |-> 0, month |-> 1, day |-> 1, ok |-> TRUE])
    IN  [t EXCEPT !.ok = /\ t.ok
                         /\ t.month \in 1 .. 12
                         /\ t.day \in 1 .. daysIn(t.month, t.year)]

\* val.Format(time.DateOnly)
FormatDateOnly(t) == Pad(t.year, 4) \o "-" \o Pad(t.month, 2) \o "-" \o Pad(t.day, 2)

-----------------------------------------------------------------------------
(* transact.go: parsing a record into a transaction *)

\* flds[index], flds being the record with an empty string prepended
At(flds, index) == flds[index + 1]

\* the read flds[index] is within the slice
InRange(flds, index) == index + 1 <= Len(flds)

parseFloat64(float) ==
    LET r == ParseFloat(float)
    IN  IF ~ r.ok THEN [val |-> zero, err |-> errParseFloat]
        ELSE [val |-> r.val, err |-> nil]

\* parseAmount taking the amount field only when it is not empty, and
\* falling back on the credit and debit fields otherwise
parseAmount_NonEmptyAmountFirst(flds, c) ==
    LET amt == At(flds, c.amountI)
        crt == At(flds, c.creditI)
        dbt == At(flds, c.debitI)
    IN  IF amt # "" THEN parseFloat64(amt)
        ELSE IF crt # "" /\ dbt = "" THEN parseFloat64(crt)
        ELSE IF dbt # "" /\ crt = ""
             THEN [val |-> Normalise(Negate(Abs(parseFloat64(dbt).val))),
                   err |-> parseFloat64(dbt).err]
        ELSE [val |-> zero, err |-> errCreditDebit]

\* parseAmount negating the debit value without taking its absolute value
parseAmount_NoAbs(flds, c) ==
    IF c.amountI # 0 THEN parseFloat64(At(flds, c.amountI))
    ELSE LET crt == At(flds, c.creditI)
             dbt == At(flds, c.debitI)
         IN  IF dbt = "" THEN parseFloat64(crt)
             ELSE LET amt == parseFloat64(dbt)
                  IN  IF amt.err # nil THEN amt
                      ELSE [val |-> Normalise(Negate(amt.val)), err |-> nil]

parseAmount(flds, c) ==
    IF c.amountI # 0 THEN parseFloat64(At(flds, c.amountI))
    ELSE LET crt == At(flds, c.creditI)
             dbt == At(flds, c.debitI)
         IN  IF dbt = "" THEN parseFloat64(crt)
             ELSE LET amt == parseFloat64(dbt)
                  IN  IF amt.err # nil THEN amt
                      ELSE [val |-> Normalise(Negate(Abs(amt.val))), err |-> nil]

parseDate(flds, c) ==
    LET val == TimeParse(c.dateFormat, At(flds, c.dateI))
    IN  IF ~ val.ok THEN [val |-> "", err |-> errParseDate]
        ELSE [val |-> FormatDateOnly(val), err |-> nil]

\* the check of the amount in transact: the error of parseAmount, or
\* errAmount for an amount of zero
amountError_NoZeroCheck(amt) ==
    IF amt.err # nil THEN amt.err
    ELSE nil

amountError(amt) ==
    IF amt.err # nil THEN amt.err
    ELSE IF amt.val = zero THEN errAmount
    ELSE nil

\* the switch of transact with the field of the record taken before the
\* name of the configuration
thisAcctOf_FieldFirst(flds, c) ==
    IF At(flds, c.thisAcctI) # "" THEN [val |-> At(flds, c.thisAcctI), err |-> nil]
    ELSE IF c.thisAcct # "" THEN [val |-> c.thisAcct, err |-> nil]
    ELSE [val |-> "", err |-> errThisAcct]

\* the switch of transact that sets trn.thisAcct
thisAcctOf(flds, c) ==
    IF c.thisAcct # "" THEN [val |-> c.thisAcct, err |-> nil]
    ELSE IF At(flds, c.thisAcctI) # "" THEN [val |-> At(flds, c.thisAcctI), err |-> nil]
    ELSE [val |-> "", err |-> errThisAcct]

\* trn.transact(fields, cfg): the transaction it leaves in trn, and its
\* error; a read outside flds is a panic
transact(t, record, c) ==
    IF Len(record) # c.nFields THEN [trn |-> t, err |-> errNFields]
    ELSE
    LET flds == <<"">> \o record
        date == parseDate(flds, c)
        t1   == [t EXCEPT !.date = date.val]
        amt  == parseAmount(flds, c)
        t2   == [t1 EXCEPT !.amount = amt.val]
        t3   == [t2 EXCEPT !.memo = At(flds, c.memoI)]
        t4   == [t3 EXCEPT !.otherAcct = At(flds, c.otherAcctI)]
        this == thisAcctOf(flds, c)
    IN  IF ~ InRange(flds, c.dateI) THEN [trn |-> t, err |-> panicIndex]
        ELSE IF date.err # nil THEN [trn |-> t1, err |-> date.err]
        ELSE IF \E i \in (IF c.amountI # 0 THEN {c.amountI} ELSE {c.creditI, c.debitI}) :
                    ~ InRange(flds, i)
             THEN [trn |-> t1, err |-> panicIndex]
        ELSE IF amountError(amt) # nil THEN [trn |-> t2, err |-> amountError(amt)]
        ELSE IF ~ InRange(flds, c.memoI) THEN [trn |-> t2, err |-> panicIndex]
        ELSE IF t3.memo = "" THEN [trn |-> t3, err |-> errMemo]
        ELSE IF ~ InRange(flds, c.otherAcctI) THEN [trn |-> t3, err |-> panicIndex]
        ELSE IF c.thisAcct = "" /\ ~ InRange(flds, c.thisAcctI)
             THEN [trn |-> t4, err |-> panicIndex]
        ELSE IF this.err # nil THEN [trn |-> t4, err |-> this.err]
        ELSE [trn |-> [t4 EXCEPT !.thisAcct = this.val], err |-> nil]

\* strings.Join(elems, sep)
RECURSIVE Join(_, _)
Join(elems, sep) ==
    IF Len(elems) = 0 THEN ""
    ELSE IF Len(elems) = 1 THEN elems[1]
    ELSE elems[1] \o sep \o Join(Tail(elems), sep)

\* trn.string() with a sixth, empty field after the amount
string_SixFields(t) ==
    LET amt  == FormatFloat(t.amount)
        flds == <<t.date, t.thisAcct, t.otherAcct, t.memo, amt, "">>
    IN  Join(flds, ",")

\* trn.string()
string(t) ==
    LET amt  == FormatFloat(t.amount)
        flds == <<t.date, t.thisAcct, t.otherAcct, t.memo, amt>>
    IN  Join(flds, ",")

-----------------------------------------------------------------------------
(* The inputs: the configurations and the records of the tests, and the    *)
(* assignments the tests make to them                                      *)

\* the zero value of a transact (var trn transact)
zeroTrn ==
    [amount |-> [m |-> 0, e |-> 0], date |-> "", memo |-> "", otherAcct |-> "", thisAcct |-> ""]

NFieldsValues ==
    {minNFields - 1, minNFields, minNFields + 1, maxNFields, maxNFields + 1}

IndexValues == (0 .. (minNFields + 2)) \cup {maxNFields + 1, MaxUint8}

DateFormatValues == {"", "02/01/2006", "gibberish"}

ThisAcctValues == {"", "Mini"}

IndexNames ==
    {"amountI", "creditI", "dateI", "debitI", "memoI", "otherAcctI", "thisAcctI"}

\* the configurations one assignment statement of a test makes of c: an
\* assignment to one field, or to thisAcct and thisAcctI together
SetCfgField(c) ==
    ({[c EXCEPT !.nFields = v] : v \in NFieldsValues}
        \cup {[c EXCEPT ![f] = v] : f \in IndexNames, v \in IndexValues}
        \cup {[c EXCEPT !.dateFormat = v] : v \in DateFormatValues}
        \cup {[c EXCEPT !.thisAcct = v] : v \in ThisAcctValues}
        \cup {[c EXCEPT !.thisAcct = v, !.thisAcctI = i] :
                    v \in ThisAcctValues, i \in IndexValues}) \ {c}

\* the records of the tests
kbRow ==
    <<"ZZ-YYYY-XXXXXXX-WW", "29-12-2023",
      "Automatic Payment Rates MISS E MACD ;Ref: Rates MISS E MACD",
      "AP", "Rates", "E", "", "", "", "", "MISS E MACD", "AA-BBBB-CCCCCCC-DD",
      "162.00", "", "162.00", "1434.23">>

miniRow == <<"2025-04-17", "A penny for your thoughts.", ".01">>

pcuCreditRow ==
    <<"28/11/2019", "HealthAndLif eInsuranceAn dSubs ARNHEMCR BP", "", "123.00", "316.69">>

pcuDebitRow ==
    <<"07/01/2020", "554PHP 18832946 Best of Health", "16.92", "", "265.01">>

\* the records the tests hand to transact under the fixture c
FixtureRecords(c) ==
    IF c = kbFull THEN {kbRow}
    ELSE IF c = mini THEN {miniRow}
    ELSE {pcuCreditRow, pcuDebitRow}

\* the values the tests assign to a field of a record
FieldValues == {"", "0", "-16.92", "a,b"}

\* the records one change of a test makes of record: another value in one
\* field, the last field removed, or one more field
SetRecordField(record) ==
    ({[record EXCEPT ![i] = v] : i \in 1 .. Len(record), v \in FieldValues}
        \cup {SubSeq(record, 1, Len(record) - 1)}
        \cup {Append(record, v) : v \in FieldValues}) \ {record}

\* no run of main: nothing parsed from the command line, nothing read and
\* nothing written
NoRun ==
    /\ flags = "unset"
    /\ args = <<>>
    /\ argI = 0
    /\ stmt = <<>>
    /\ pos = 0
    /\ stdout = <<>>
    /\ stderr = <<>>
    /\ mainErr = "unset"
    /\ exit = "running"

-----------------------------------------------------------------------------
(* The run of the configuration tests: a fixture, assignments to its       *)
(* fields, then cfg.isValid()                                              *)

InitConfig ==
    /\ cfg \in {kbFull, mini, pcu}
    /\ cfgErr = "unset"
    /\ fields = <<>>
    /\ trn = zeroTrn
    /\ err = "unset"
    /\ line = "unset"
    /\ pc = "config"
    /\ nEdits = 0
    /\ NoRun

EditConfig ==
    /\ pc = "config"
    /\ nEdits < MaxCfgEdits
    /\ cfg' \in SetCfgField(cfg)
    /\ nEdits' = nEdits + 1
    /\ UNCHANGED <<cfgErr, fields, trn, err, line, pc>>
    /\ UNCHANGED runVars

IsValid ==
    /\ pc = "config"
    /\ cfgErr' = isValid(cfg)
    /\ pc' = "validated"
    /\ UNCHANGED <<cfg, fields, trn, err, line, nEdits>>
    /\ UNCHANGED runVars

NextConfig == EditConfig \/ IsValid

SpecConfig == InitConfig /\ [][NextConfig]_vars

-----------------------------------------------------------------------------
(* C1: isValid returns nil exactly when the seven invariants of a          *)
(* configuration hold, and an error whenever one of them is violated.      *)

Inv1_FieldCount(c) == c.nFields \in minNFields .. maxNFields

Inv2_IndexRange(c) == \A f \in IndexNames : c[f] <= c.nFields

Inv3_IndexDistinct(c) ==
    \A f, g \in IndexNames : (f # g /\ c[f] # 0) => c[f] # c[g]

Inv4_DateFormat(c) == c.dateFormat # ""

Inv5_Mandatory(c) == c.dateI # 0 /\ c.memoI # 0

Inv6_AmountSource(c) == c.amountI # 0 \/ (c.creditI # 0 /\ c.debitI # 0)

Inv7_ThisAccount(c) == c.thisAcct # "" \/ c.thisAcctI # 0

AllInvariants(c) ==
    /\ Inv1_FieldCount(c)
    /\ Inv2_IndexRange(c)
    /\ Inv3_IndexDistinct(c)
    /\ Inv4_DateFormat(c)
    /\ Inv5_Mandatory(c)
    /\ Inv6_AmountSource(c)
    /\ Inv7_ThisAccount(c)

-----------------------------------------------------------------------------
(* C2: when several invariants are violated at once, isValid reports only  *)
(* the first violation in the order: empty date format, field count out of *)
(* range, the index-set check (indexes visited in the order amount, credit,*)
(* date, debit, memo, otherAccount, thisAccount; for the first offending   *)
(* index, out of range if it exceeds the field count, else duplicate),     *)
(* date index zero, memo index zero, missing this-account, missing amount  *)
(* source.                                                                 *)

VisitOrder ==
    <<"amountI", "creditI", "dateI", "debitI", "memoI", "otherAcctI", "thisAcctI">>

Offending(c, i) ==
    \/ c[VisitOrder[i]] > c.nFields
    \/ /\ c[VisitOrder[i]] # 0
       /\ \E j \in 1 .. (i - 1) : c[VisitOrder[j]] = c[VisitOrder[i]]

FirstOffending(c) ==
    CHOOSE i \in 1 .. 7 : Offending(c, i) /\ \A j \in 1 .. (i - 1) : ~ Offending(c, j)

FirstViolation(c) ==
    IF c.dateFormat = "" THEN errDateFormat
    ELSE IF c.nFields \notin 3 .. 20 THEN errNFieldsRange
    ELSE IF \E i \in 1 .. 7 : Offending(c, i)
         THEN (IF c[VisitOrder[FirstOffending(c)]] > c.nFields
               THEN errIndexRange ELSE errIndexUnique)
    ELSE IF c.dateI = 0 THEN errDateI
    ELSE IF c.memoI = 0 THEN errMemoI
    ELSE IF c.thisAcct = "" /\ c.thisAcctI = 0 THEN errThisAcctOpt
    ELSE IF c.amountI = 0 /\ ~ (c.creditI # 0 /\ c.debitI # 0) THEN errAmountOpt
    ELSE nil

C2_FirstViolationReported ==
    pc = "validated" => cfgErr = FirstViolation(cfg)

\* both mandatory indexes are zero and only the date index is reported
C2_Witness ==
    /\ pc = "validated"
    /\ cfg.dateI = 0
    /\ cfg.memoI = 0
    /\ cfgErr = errDateI

-----------------------------------------------------------------------------
(* C3: isValid returns an error for a configuration whose date format is   *)
(* not empty but is not a Go-style date layout, such as "gibberish", even  *)
(* when every other field of the configuration is valid.                   *)

\* sub occurs in s
Contains(s, sub) ==
    \E i \in 1 .. (Len(s) - Len(sub) + 1) : SubSeq(s, i, i + Len(sub) - 1) = sub

\* s names at least one element of Go's reference date (2006-01-02)
IsGoDateLayout(s) ==
    \E chunk \in {"2006", "06", "01", "1", "Jan", "02", "2"} : Contains(s, chunk)

C3_GibberishRejected ==
    (pc = "validated" /\ cfg.dateFormat # "" /\ ~ IsGoDateLayout(cfg.dateFormat))
        => cfgErr # nil

-----------------------------------------------------------------------------
(* The run of the transaction tests: a valid configuration, a record of    *)
(* the tests, changes to the record, then trn.transact() and, on success,  *)
(* trn.string()                                                            *)

\* the valid configurations a transaction test runs under: the fixture, or
\* the fixture after one assignment (kbFull, whose records have 16 fields,
\* only as it is)
TransactConfigs(fixture) ==
    IF fixture = kbFull THEN {kbFull}
    ELSE {c \in {fixture} \cup SetCfgField(fixture) : isValid(c) = nil}

InitTransact ==
    /\ \E fixture \in {kbFull, mini, pcu} :
          /\ cfg \in TransactConfigs(fixture)
          /\ fields \in FixtureRecords(fixture)
    /\ cfgErr = nil
    /\ trn = zeroTrn
    /\ err = "unset"
    /\ line = "unset"
    /\ pc = "record"
    /\ nEdits = 0
    /\ NoRun

EditRecord ==
    /\ pc = "record"
    /\ nEdits < MaxRowEdits
    /\ fields' \in SetRecordField(fields)
    /\ nEdits' = nEdits + 1
    /\ UNCHANGED <<cfg, cfgErr, trn, err, line, pc>>
    /\ UNCHANGED runVars

Transact ==
    /\ pc = "record"
    /\ LET r == transact(trn, fields, cfg)
       IN  /\ trn' = r.trn
           /\ err' = r.err
    /\ pc' = "transacted"
    /\ UNCHANGED <<cfg, cfgErr, fields, line, nEdits>>
    /\ UNCHANGED runVars

String ==
    /\ pc = "transacted"
    /\ err = nil
    /\ line' = string(trn)
    /\ pc' = "printed"
    /\ UNCHANGED <<cfg, cfgErr, fields, trn, err, nEdits>>
    /\ UNCHANGED runVars

NextTransact == EditRecord \/ Transact \/ String

SpecTransact == InitTransact /\ [][NextTransact]_vars

-----------------------------------------------------------------------------
(* What the specification says of a record, stated without the code of     *)
(* transact: the column an index names (none for index zero), and the      *)
(* checks in their order.                                                  *)

Col(record, index) == IF index = 0 THEN "" ELSE record[index]

Transacted == pc \in {"transacted", "printed"}

ArityOk == Len(fields) = cfg.nFields

DateOk == TimeParse(cfg.dateFormat, Col(fields, cfg.dateI)).ok

Credit == Col(fields, cfg.creditI)

Debit == Col(fields, cfg.debitI)

CreditDebitMode == cfg.amountI = 0

Conflict == CreditDebitMode /\ ((Credit = "") <=> (Debit = ""))

\* the text the amount is taken from, when credit and debit do not conflict
AmountText ==
    IF cfg.amountI # 0 THEN Col(fields, cfg.amountI)
    ELSE IF Debit = "" THEN Credit
    ELSE Debit

\* the error the specification gives for the amount, nil if none
SpecAmountError ==
    IF Conflict THEN errCreditDebit
    ELSE IF ~ ParseFloat(AmountText).ok THEN errParseFloat
    ELSE IF ParseFloat(AmountText).val.m = 0 THEN errAmount
    ELSE nil

\* the error of the first failing check in the order arity, date, amount,
\* memo, this-account
SpecError ==
    IF ~ ArityOk THEN errNFields
    ELSE IF ~ DateOk THEN errParseDate
    ELSE IF SpecAmountError # nil THEN SpecAmountError
    ELSE IF Col(fields, cfg.memoI) = "" THEN errMemo
    ELSE IF cfg.thisAcct = "" /\ Col(fields, cfg.thisAcctI) = "" THEN errThisAcct
    ELSE nil

-----------------------------------------------------------------------------
(* C4: for a validated configuration, transact reports the error of the    *)
(* first failing check in the order arity, date, amount (parse, conflict,  *)
(* then zero), memo, this-account, and attempts no later check; every      *)
(* record whose length differs from the field count fails with the         *)
(* wrong-number-of-fields error whatever its fields hold.                  *)

C4_FirstFailingCheck ==
    Transacted => err = SpecError

\* the order holds on every record whose credit and debit do not conflict
OrderHoldsWithoutConflict ==
    (Transacted /\ (ArityOk => ~ Conflict)) => err = SpecError

-----------------------------------------------------------------------------
(* C5: when the amount index is not zero, the amount is obtained only by   *)
(* parsing the column at the amount index: the credit and debit columns    *)
(* are never consulted, and an amount column that does not parse, an empty *)
(* one included, yields the parse error even if the credit or the debit    *)
(* column holds a valid number.                                            *)

C5_AmountColumnOnly ==
    (Transacted /\ cfg.amountI # 0 /\ ArityOk /\ DateOk) =>
        LET amt == ParseFloat(Col(fields, cfg.amountI))
        IN  IF amt.ok THEN trn.amount = amt.val /\ err # errParseFloat
            ELSE err = errParseFloat

\* the amount column is empty, the credit column holds a valid number, and
\* the record is rejected with the parse error
C5_Witness ==
    /\ Transacted /\ ArityOk /\ DateOk
    /\ cfg.amountI # 0
    /\ cfg.creditI # 0
    /\ Col(fields, cfg.amountI) = ""
    /\ ParseFloat(Credit).ok
    /\ ParseFloat(Credit).val.m # 0
    /\ err = errParseFloat

-----------------------------------------------------------------------------
(* C6: in credit/debit mode, a record whose credit and debit columns are   *)
(* both empty, or both not empty, makes transact fail with the             *)
(* credit/debit conflict error; no transaction is produced from it.        *)

C6_ConflictRejected ==
    (Transacted /\ ArityOk /\ DateOk /\ Conflict) => err = errCreditDebit

-----------------------------------------------------------------------------
(* C7: in credit/debit mode with the credit column empty, a debit value v  *)
(* and the debit value -v yield the same amount, -|v|; with the debit      *)
(* column empty, a credit value keeps its parsed sign.                     *)

\* the text of a number with its sign changed
FlipSign(s) == IF HasPrefix(s, "-") THEN Drop(s, 1) ELSE "-" \o s

C7_DebitSign ==
    (Transacted /\ CreditDebitMode /\ ArityOk /\ DateOk) =>
        /\ (Credit = "" /\ ParseFloat(Debit).ok) =>
              /\ trn.amount = Normalise(Negate(Abs(ParseFloat(Debit).val)))
              /\ trn.amount.m <= 0
              /\ transact(zeroTrn, [fields EXCEPT ![cfg.debitI] = FlipSign(@)], cfg).trn.amount
                    = trn.amount
        /\ (Debit = "" /\ ParseFloat(Credit).ok) =>
              trn.amount = ParseFloat(Credit).val

\* a negative debit value has given a negative amount
C7_Witness ==
    /\ Transacted /\ CreditDebitMode /\ ArityOk /\ DateOk
    /\ Credit = ""
    /\ HasPrefix(Debit, "-")
    /\ ParseFloat(Debit).val.m < 0
    /\ trn.amount = ParseFloat(Debit).val
    /\ err = nil

-----------------------------------------------------------------------------
(* C8: whichever column supplies the amount, a record whose extracted      *)
(* amount is exactly zero makes transact fail with the zero-amount error;  *)
(* no transaction with amount zero is returned as a success.               *)

C8_ZeroAmountRejected ==
    Transacted =>
        /\ (ArityOk /\ DateOk /\ ~ Conflict
                /\ ParseFloat(AmountText).ok /\ ParseFloat(AmountText).val.m = 0)
              => err = errAmount
        /\ err = nil => trn.amount.m # 0

\* a debit of zero, the credit column being empty, is rejected
C8_Witness ==
    /\ Transacted /\ ArityOk /\ DateOk
    /\ CreditDebitMode
    /\ Credit = ""
    /\ Debit = "0"
    /\ err = errAmount

-----------------------------------------------------------------------------
(* C9: when the this-account name of the configuration is not empty, the   *)
(* transaction's this-account is that name for every record, whatever the  *)
(* column at the this-account index holds; when the name is empty it is    *)
(* the column at the this-account index, and an empty column makes         *)
(* transact fail with the empty-this-account error.                        *)

C9_ThisAccount ==
    Transacted =>
        /\ (err = nil /\ cfg.thisAcct # "") => trn.thisAcct = cfg.thisAcct
        /\ (err = nil /\ cfg.thisAcct = "") =>
              trn.thisAcct = Col(fields, cfg.thisAcctI) /\ trn.thisAcct # ""
        /\ (ArityOk /\ cfg.thisAcct = "" /\ Col(fields, cfg.thisAcctI) = "") =>
              /\ err # nil
              /\ err \notin {errParseDate, errParseFloat, errAmount, errMemo} => err = errThisAcct

\* the name wins over a column that is set and not empty
C9_Witness ==
    /\ Transacted /\ ArityOk
    /\ err = nil
    /\ cfg.thisAcct # ""
    /\ cfg.thisAcctI # 0
    /\ Col(fields, cfg.thisAcctI) \notin {"", cfg.thisAcct}
    /\ trn.thisAcct = cfg.thisAcct

-----------------------------------------------------------------------------
(* C10: the rendering of a transaction is its five values in the order     *)
(* date, thisAccount, otherAccount, memo, amount, joined by single commas  *)
(* with nothing before or after; an absent otherAccount is an empty field, *)
(* so a transaction whose fields hold no comma renders with exactly four   *)
(* commas, as in "2025-04-17,Mini,,A penny for your thoughts.,0.01".       *)

CountCommas(s) == Cardinality({i \in 1 .. Len(s) : CharAt(s, i) = ","})

C10_Rendering ==
    pc = "printed" =>
        /\ line = trn.date \o "," \o trn.thisAcct \o "," \o trn.otherAcct \o ","
                    \o trn.memo \o "," \o FormatFloat(trn.amount)
        /\ CountCommas(line) = 4 + CountCommas(trn.thisAcct) + CountCommas(trn.otherAcct)
                                 + CountCommas(trn.memo)
        /\ (cfg = mini /\ fields = miniRow) =>
              line = "2025-04-17,Mini,,A penny for your thoughts.,0.01"

\* the record of TestHappyTransactMini has been rendered
C10_Witness ==
    /\ pc = "printed"
    /\ cfg = mini
    /\ fields = miniRow
    /\ trn.otherAcct = ""
    /\ CountCommas(line) = 4
    /\ line = "2025-04-17,Mini,,A penny for your thoughts.,0.01"

-----------------------------------------------------------------------------
(* config.go: main and translateStatement.  A statement is the sequence of *)
(* what reader.Read() returns for it, call by call: a record, or an error  *)
(* of the reader; after the last of them Read returns io.EOF.  Each record *)
(* of a statement is on a line of its own, so the record returned by the   *)
(* n-th call begins on line n.                                             *)

\* the largest number of records and read errors in a statement
MaxRecords == 3

pgmName == "cas2trn"

\* the error reader.Read() returns for a malformed record
errCsv == "parse error: bare \" in non-quoted-field"

\* fmt.Errorf("reader.Read(): %w", err)
errReaderRead(e) == "reader.Read(): " \o e

\* the error os.Open returns for a file it cannot open
errOpen == "open: no such file or directory"

\* a record of pcu with a field too few (TestUnhappyTransactNFields)
pcuNFieldsRow ==
    <<"28/11/2019", "HealthAndLif eInsuranceAn dSubs ARNHEMCR BP", "123.00", "316.69">>

\* a record of pcu with neither a credit nor a debit
\* (TestUnhappyTransactAmount)
pcuNeitherRow ==
    <<"07/01/2020", "554PHP 18832946 Best of Health", "", "", "265.01">>

\* a record of pcu with both a credit and a debit
\* (TestUnhappyTransactAmount)
pcuBothRow ==
    <<"07/01/2020", "554PHP 18832946 Best of Health", "16.92", "-16.92", "265.01">>

\* what reader.Read() can return for a statement read under the fixture c:
\* the records of the tests, or an error
StatementItems(c) ==
    {[flds |-> r, err |-> nil] :
        r \in FixtureRecords(c) \cup {pcuNFieldsRow, pcuNeitherRow, pcuBothRow}}
    \cup {[flds |-> <<>>, err |-> errCsv]}

\* the statements of at most n records and read errors
Statements(items, n) == UNION {[1 .. k -> items] : k \in 0 .. n}

\* fmt.Errorf("%v: %w on line %v", pgmName, err, lineN)
diagnostic(e, lineN) == pgmName \o ": " \o e \o " on line " \o NatToStr(lineN)

\* the output of log.Fatal(err) under log.SetPrefix(pgmName + ": ")
fatal(e) == pgmName \o ": " \o e

\* the lines written for a record by the loop of translateStatement, r
\* being what transact returned for it, without the diagnostic of a record
\* that fails
translateRecord_NoDiagnostic(r, out, errOut, lineN) ==
    IF r.err # nil
    THEN [stdout |-> out, stderr |-> errOut]
    ELSE [stdout |-> Append(out, string(r.trn)), stderr |-> errOut]

\* the lines written for a record by the loop of translateStatement,
\* without the continue that follows the diagnostic
translateRecord_NoContinue(r, out, errOut, lineN) ==
    IF r.err # nil
    THEN [stdout |-> Append(out, string(r.trn)),
          stderr |-> Append(errOut, diagnostic(r.err, lineN))]
    ELSE [stdout |-> Append(out, string(r.trn)), stderr |-> errOut]

\* the body of the loop of translateStatement after err = trn.transact(flds,
\* cfg), r being what transact returned: the two streams after the record
\* has been handled
translateRecord(r, out, errOut, lineN) ==
    IF r.err # nil
    THEN [stdout |-> out,
          stderr |-> Append(errOut, diagnostic(r.err, lineN))]
    ELSE [stdout |-> Append(out, string(r.trn)), stderr |-> errOut]

\* where main goes on when translateStatement returns: the next file of
\* the loop, or the statement after the if
Return == IF argI < Len(args) THEN "main" ELSE "after"

\* flds, err := reader.Read(), and the two returns of translateStatement
ReaderRead ==
    /\ pc = "read"
    /\ IF pos = Len(stmt)
       THEN /\ mainErr' = nil
            /\ pc' = Return
            /\ UNCHANGED <<fields, pos>>
       ELSE LET item == stmt[pos + 1]
            IN  /\ pos' = pos + 1
                /\ IF item.err # nil
                   THEN /\ mainErr' = errReaderRead(item.err)
                        /\ pc' = Return
                        /\ UNCHANGED fields
                   ELSE /\ fields' = item.flds
                        /\ pc' = "transact"
                        /\ UNCHANGED mainErr
    /\ UNCHANGED <<cfg, cfgErr, trn, err, line, nEdits>>
    /\ UNCHANGED <<flags, args, argI, stmt, stdout, stderr, exit>>

\* var trn transact; err = trn.transact(flds, cfg), and the line written
\* to os.Stderr or to os.Stdout; a panic of transact ends the program
TranslateRecord ==
    /\ pc = "transact"
    /\ \E r \in {transact(zeroTrn, fields, cfg)} :
          /\ trn' = r.trn
          /\ err' = r.err
          /\ IF r.err = panicIndex
             THEN /\ exit' = 2
                  /\ pc' = "exit"
                  /\ stderr' = Append(stderr, panicIndex)
                  /\ UNCHANGED <<stdout, line>>
             ELSE /\ \E w \in {translateRecord(r, stdout, stderr, pos)} :
                        /\ stdout' = w.stdout
                        /\ stderr' = w.stderr
                  /\ line' = IF r.err = nil THEN string(r.trn) ELSE line
                  /\ pc' = "read"
                  /\ UNCHANGED exit
    /\ UNCHANGED <<cfg, cfgErr, fields, nEdits>>
    /\ UNCHANGED <<flags, args, argI, stmt, pos, mainErr>>

\* rdr = csv.NewReader(os.Stdin); err = translateStatement(rdr, cfg): the
\* call, with what standard input holds
MainStdin ==
    /\ pc = "main"
    /\ Len(args) = 0
    /\ stmt' \in Statements(StatementItems(cfg), MaxRecords)
    /\ pos' = 0
    /\ pc' = "read"
    /\ UNCHANGED <<cfg, cfgErr, fields, trn, err, line, nEdits>>
    /\ UNCHANGED <<flags, args, argI, stdout, stderr, mainErr, exit>>

\* if err != nil { log.Fatal(err) } at the end of main, and the return of
\* main
MainExit ==
    /\ pc = "after"
    /\ IF mainErr # nil
       THEN /\ stderr' = Append(stderr, fatal(mainErr))
            /\ exit' = 1
       ELSE /\ exit' = 0
            /\ UNCHANGED stderr
    /\ pc' = "exit"
    /\ UNCHANGED <<cfg, cfgErr, fields, trn, err, line, nEdits>>
    /\ UNCHANGED <<flags, args, argI, stmt, pos, stdout, mainErr>>

\* main after parseConfig has returned a valid configuration
InitMain ==
    /\ cfg \in {kbFull, mini, pcu}
    /\ cfgErr = nil
    /\ fields = <<>>
    /\ trn = zeroTrn
    /\ err = "unset"
    /\ line = "unset"
    /\ pc = "main"
    /\ nEdits = 0
    /\ flags = "unset"
    /\ argI = 0
    /\ stmt = <<>>
    /\ pos = 0
    /\ stdout = <<>>
    /\ stderr = <<>>
    /\ mainErr = nil
    /\ exit = "running"

\* the run of main with no file named on the command line
InitStatement ==
    /\ InitMain
    /\ args = <<>>

NextStatement == MainStdin \/ ReaderRead \/ TranslateRecord \/ MainExit

SpecStatement == InitStatement /\ [][NextStatement]_vars

-----------------------------------------------------------------------------
(* What a statement asks for, stated without the loop of                   *)
(* translateStatement: the records read from it so far, and what each of   *)
(* them, taken alone, is worth.                                            *)

\* the number of records of stmt that have been read and handled
NHandled ==
    IF pc = "transact" THEN pos - 1
    ELSE IF pos > 0 /\ stmt[pos].err # nil THEN pos - 1
    ELSE pos

\* record n of stmt passes transact
Passes(n) == transact(zeroTrn, stmt[n].flds, cfg).err = nil

\* the output line of record n of stmt
OutputLine(n) == string(transact(zeroTrn, stmt[n].flds, cfg).trn)

\* the diagnostic line of record n of stmt
DiagnosticLine(n) ==
    diagnostic(transact(zeroTrn, stmt[n].flds, cfg).err, n)

\* the output lines of the records first .. last of stmt that pass, in the
\* order of the records
RECURSIVE OutputLines(_, _)
OutputLines(first, last) ==
    IF first > last THEN <<>>
    ELSE (IF Passes(first) THEN <<OutputLine(first)>> ELSE <<>>)
            \o OutputLines(first + 1, last)

\* the diagnostic lines of the records first .. last of stmt that fail, in
\* the order of the records
RECURSIVE DiagnosticLines(_, _)
DiagnosticLines(first, last) ==
    IF first > last THEN <<>>
    ELSE (IF Passes(first) THEN <<>> ELSE <<DiagnosticLine(first)>>)
            \o DiagnosticLines(first + 1, last)

\* the lines of os.Stderr that are diagnostics of records: all of them but
\* the line of log.Fatal
Diagnostics ==
    IF pc = "exit" /\ exit = 1 THEN SubSeq(stderr, 1, Len(stderr) - 1)
    ELSE stderr

\* translateStatement has returned without a read error
ReadToEnd == pc \in {"after", "exit"} /\ mainErr = nil

\* C11: under a valid configuration the records read from a statement are
\* handled once each and in the order of the input: after n records the
\* output stream holds the output lines of those of the n records that
\* pass, the diagnostic stream the diagnostic lines of those that fail, each
\* in the order of the records, so that every record has one line in one of
\* the two streams; a record that fails does not end the loop, which, when
\* no read fails, returns only after the last record of the statement.
C11_EachRecordOnceInOrder ==
    pc # "main" =>
        /\ stdout = OutputLines(1, NHandled)
        /\ Diagnostics = DiagnosticLines(1, NHandled)
        /\ Len(stdout) + Len(Diagnostics) = NHandled
        /\ (ReadToEnd => NHandled = Len(stmt))

\* a statement has been read to its end in which a record that fails comes
\* before a record that passes, and both streams hold a line
C11_Witness ==
    /\ pc = "exit"
    /\ exit = 0
    /\ Len(stmt) = MaxRecords
    /\ ~ Passes(1)
    /\ Passes(MaxRecords)
    /\ Len(stdout) >= 1
    /\ Len(stderr) >= 1
    /\ stdout[Len(stdout)] = OutputLine(MaxRecords)

\* the text is a date in the format of the output, time.DateOnly
IsDateOnly(text) == TimeParse("2006-01-02", text).ok

\* C12: under a valid configuration a line is written to the output stream
\* only by a step in which transact returned no error for the row just
\* read, and the line is the rendering of the transaction of that row, which
\* has a parsed date, a memo and a thisAccount that are not empty and an
\* amount that is not zero; the lines already written are left as they are.
C12_OutputOnlyFromPassingRows ==
    [][stdout' # stdout =>
          /\ pc = "transact"
          /\ err' = nil
          /\ transact(zeroTrn, fields, cfg).err = nil
          /\ trn' = transact(zeroTrn, fields, cfg).trn
          /\ IsDateOnly(trn'.date)
          /\ trn'.memo # ""
          /\ trn'.thisAcct # ""
          /\ trn'.amount # zero
          /\ stdout' = Append(stdout, string(trn'))]_vars

\* a row has passed and its line has been written after the diagnostic of a
\* row that failed
C12_Witness ==
    /\ pc = "read"
    /\ err = nil
    /\ Len(stderr) >= 1
    /\ Len(stdout) >= 1
    /\ stdout[Len(stdout)] = string(trn)
    /\ trn.memo # ""
    /\ trn.amount # zero

-----------------------------------------------------------------------------
(* A configuration and a record together: a fixture, assignments to its    *)
(* fields, cfg.isValid() and, when the configuration is valid, transact on *)
(* a record of nFields fields.                                             *)

\* a date written in the layout: what Time.Format(layout) gives for
\* 29 December 2023
RECURSIVE DateTextOf(_)
DateTextOf(layout) ==
    IF Len(layout) = 0 THEN ""
    ELSE IF HasPrefix(layout, "2006") THEN "2023" \o DateTextOf(Drop(layout, 4))
    ELSE IF HasPrefix(layout, "01") THEN "12" \o DateTextOf(Drop(layout, 2))
    ELSE IF HasPrefix(layout, "02") THEN "29" \o DateTextOf(Drop(layout, 2))
    ELSE SubSeq(layout, 1, 1) \o DateTextOf(Drop(layout, 1))

\* records of c.nFields fields: one with a date, an amount or a credit and
\* text in every other field, one with a debit in place of the credit, and
\* one of empty fields
RecordsOfNFields(c) ==
    LET credit == [i \in 1 .. c.nFields |->
                        IF i = c.dateI THEN DateTextOf(c.dateFormat)
                        ELSE IF i \in {c.amountI, c.creditI} THEN "162.00"
                        ELSE IF i = c.debitI THEN ""
                        ELSE "AP"]
        debit  == [i \in 1 .. c.nFields |->
                        IF i = c.dateI THEN DateTextOf(c.dateFormat)
                        ELSE IF i \in {c.amountI, c.debitI} THEN "16.92"
                        ELSE IF i = c.creditI THEN ""
                        ELSE "AP"]
        empty  == [i \in 1 .. c.nFields |-> ""]
    IN  {credit, debit, empty}

\* a record of nFields fields is read under the valid configuration
ReadOfNFields ==
    /\ pc = "validated"
    /\ cfgErr = nil
    /\ fields' \in RecordsOfNFields(cfg)
    /\ pc' = "record"
    /\ UNCHANGED <<cfg, cfgErr, trn, err, line, nEdits>>
    /\ UNCHANGED runVars

NextIndex == EditConfig \/ IsValid \/ ReadOfNFields \/ Transact

SpecIndex == InitConfig /\ [][NextIndex]_vars

\* C13: no access is out of range.  cfg.isValid() never panics, whatever
\* the configuration; a configuration it accepts has nFields <= maxNFields
\* and every index in 0 .. nFields, so that inUse[val] was read within the
\* array; and on a record of nFields fields under such a configuration
\* transact never panics, every index it can read is within the record
\* extended by the leading empty string, and index zero reads that empty
\* string.
C13_IndexSafety ==
    /\ cfgErr # panicIndex
    /\ (pc # "config" /\ cfgErr = nil) =>
          /\ cfg.nFields <= maxNFields
          /\ \A i \in 1 .. nIndexes :
                inxs(cfg)[i] \in 0 .. cfg.nFields /\ inxs(cfg)[i] <= maxNFields
    /\ pc = "transacted" =>
          /\ Len(fields) = cfg.nFields
          /\ err # panicIndex
          /\ \A i \in 1 .. nIndexes : InRange(<<"">> \o fields, inxs(cfg)[i])
          /\ At(<<"">> \o fields, 0) = ""
          /\ (err = nil /\ cfg.otherAcctI = 0) => trn.otherAcct = ""

\* a record has passed under a valid configuration changed by assignment,
\* with an index equal to nFields and an index of zero
C13_Witness ==
    /\ pc = "transacted"
    /\ err = nil
    /\ nEdits >= 1
    /\ \E i \in 1 .. nIndexes : inxs(cfg)[i] = cfg.nFields
    /\ cfg.otherAcctI = 0
    /\ trn.otherAcct = ""
    /\ trn.memo = "AP"

-----------------------------------------------------------------------------
(* config.go: main with statement files named on the command line.  A file *)
(* is what os.Open returns for its name, an error or the statement.        *)

\* the largest number of statement files on the command line
MaxFiles == 2

\* the statements a file holds under the fixture c: none or one record, a
\* read error alone, a record that fails before one that passes, and a read
\* error between two records
FileStatements(c) ==
    LET bad == [flds |-> <<>>, err |-> errCsv]
        nf  == [flds |-> pcuNFieldsRow, err |-> nil]
    IN  {<<>>, <<bad>>}
        \cup UNION {{<<[flds |-> r, err |-> nil]>>,
                     <<nf, [flds |-> r, err |-> nil]>>,
                     <<[flds |-> r, err |-> nil], bad, [flds |-> r, err |-> nil]>>} :
                        r \in FixtureRecords(c)}

\* the files a name on the command line can stand for: one that cannot be
\* opened, or one that holds a statement
Files(c) ==
    {[stmt |-> <<>>, err |-> errOpen]}
    \cup {[stmt |-> st, err |-> nil] : st \in FileStatements(c)}

\* file, err = os.Open(stmt) for the next name of flag.Args(), log.Fatal
\* when it fails, and the call translateStatement(rdr, cfg)
MainOpen ==
    /\ pc = "main"
    /\ argI < Len(args)
    /\ LET file == args[argI + 1]
       IN  IF file.err # nil
           THEN /\ mainErr' = file.err
                /\ stderr' = Append(stderr, fatal(file.err))
                /\ exit' = 1
                /\ pc' = "exit"
                /\ UNCHANGED <<argI, stmt, pos>>
           ELSE /\ mainErr' = nil
                /\ argI' = argI + 1
                /\ stmt' = file.stmt
                /\ pos' = 0
                /\ pc' = "read"
                /\ UNCHANGED <<stderr, exit>>
    /\ UNCHANGED <<cfg, cfgErr, fields, trn, err, line, nEdits>>
    /\ UNCHANGED <<flags, args, stdout>>

\* the run of main with files named on the command line
InitFiles ==
    /\ InitMain
    /\ \E n \in 1 .. MaxFiles : args \in [1 .. n -> Files(cfg)]

NextFiles == MainOpen \/ ReaderRead \/ TranslateRecord \/ MainExit

SpecFiles == InitFiles /\ [][NextFiles]_vars

\* translateStatement returned a read failure for file k of the command
\* line: the statement of the file holds a read error
ReadFailed(k) == \E i \in 1 .. Len(args[k].stmt) : args[k].stmt[i].err # nil

\* C14: when the program has ended and translateStatement returned a read
\* failure for any of the files it was called on, the run has ended with a
\* fatal error: the exit status is not zero and log.Fatal has written the
\* error.
C14_AnyReadFailureIsFatal ==
    (pc = "exit" /\ \E k \in 1 .. argI : ReadFailed(k)) =>
        /\ exit = 1
        /\ Len(stderr) >= 1
        /\ stderr[Len(stderr)] = fatal(mainErr)

\* what the code does ensure: a read failure in the last file named is
\* fatal
LastReadFailureIsFatal ==
    (pc = "exit" /\ argI = Len(args) /\ ReadFailed(argI)) =>
        /\ exit = 1
        /\ stderr[Len(stderr)] = fatal(errReaderRead(errCsv))

-----------------------------------------------------------------------------
(* config.go: parseConfig.  The flags are the values package flag has      *)
(* parsed from the command line; uint has 64 bits, of which ui2ui8 only    *)
(* tells values up to math.MaxUint8 from larger ones.                      *)

\* the names of the flags of type uint, nfields first, then the index flags
\* in the order of vals
UintFlags ==
    <<"nfields", "amounti", "crediti", "datei", "debiti", "memoi",
      "otheraccti", "thisaccti">>

\* the flags that parse to the configuration c
FlagsOf(c) ==
    [nfields |-> c.nFields, amounti |-> c.amountI, crediti |-> c.creditI,
     datei |-> c.dateI, debiti |-> c.debitI, memoi |-> c.memoI,
     otheraccti |-> c.otherAcctI, thisaccti |-> c.thisAcctI,
     dateformat |-> c.dateFormat, thisacct |-> c.thisAcct]

\* the values given to a flag of type uint: those assigned to an index by
\* the tests, and two that do not fit a uint8, the second of which a plain
\* conversion uint8(value) would turn into minNFields
UintValues == IndexValues \cup {MaxUint8 + 1, MaxUint8 + 1 + minNFields}

\* the flag sets one more flag on the command line makes of f
SetFlag(f) ==
    ({[f EXCEPT ![UintFlags[i]] = v] : i \in 1 .. Len(UintFlags), v \in UintValues}
        \cup {[f EXCEPT !.dateformat = v] : v \in DateFormatValues}
        \cup {[f EXCEPT !.thisacct = v] : v \in ThisAcctValues}) \ {f}

ui2ui8(value) == IF value <= MaxUint8 THEN value ELSE 0

\* the configuration parseConfig makes of the flags
configOf(f) ==
    [nFields |-> ui2ui8(f.nfields), amountI |-> ui2ui8(f.amounti),
     creditI |-> ui2ui8(f.crediti), dateI |-> ui2ui8(f.datei),
     debitI |-> ui2ui8(f.debiti), memoI |-> ui2ui8(f.memoi),
     otherAcctI |-> ui2ui8(f.otheraccti), thisAcctI |-> ui2ui8(f.thisaccti),
     dateFormat |-> f.dateformat, thisAcct |-> f.thisacct]

\* the zero value of a config (var cfg config)
zeroCfg ==
    [nFields |-> 0, amountI |-> 0, creditI |-> 0, dateI |-> 0, debitI |-> 0,
     memoI |-> 0, otherAcctI |-> 0, thisAcctI |-> 0, dateFormat |-> "",
     thisAcct |-> ""]

\* fmt.Errorf("cfg.isValid: %w", err)
errCfgIsValid(e) == "cfg.isValid: " \o e

\* the command line of a fixture
InitFlags ==
    /\ flags \in {FlagsOf(kbFull), FlagsOf(mini), FlagsOf(pcu)}
    /\ cfg = zeroCfg
    /\ cfgErr = "unset"
    /\ fields = <<>>
    /\ trn = zeroTrn
    /\ err = "unset"
    /\ line = "unset"
    /\ pc = "flags"
    /\ nEdits = 0
    /\ args = <<>>
    /\ argI = 0
    /\ stmt = <<>>
    /\ pos = 0
    /\ stdout = <<>>
    /\ stderr = <<>>
    /\ mainErr = "unset"
    /\ exit = "running"

\* one more flag is given on the command line
EditFlags ==
    /\ pc = "flags"
    /\ nEdits < MaxCfgEdits
    /\ flags' \in SetFlag(flags)
    /\ nEdits' = nEdits + 1
    /\ UNCHANGED <<cfg, cfgErr, fields, trn, err, line, pc>>
    /\ UNCHANGED <<args, argI, stmt, pos, stdout, stderr, mainErr, exit>>

\* cfg, err := parseConfig(); if err != nil { log.Fatal(err) } in main
MainParseConfig ==
    /\ pc = "flags"
    /\ cfg' = configOf(flags)
    /\ cfgErr' = isValid(cfg')
    /\ IF cfgErr' # nil
       THEN /\ mainErr' = errCfgIsValid(cfgErr')
            /\ stderr' = Append(stderr, fatal(mainErr'))
            /\ exit' = 1
            /\ pc' = "exit"
       ELSE /\ mainErr' = nil
            /\ pc' = "main"
            /\ UNCHANGED <<stderr, exit>>
    /\ UNCHANGED <<fields, trn, err, line, nEdits>>
    /\ UNCHANGED <<flags, args, argI, stmt, pos, stdout>>

NextFlags == EditFlags \/ MainParseConfig

SpecFlags == InitFlags /\ [][NextFlags]_vars

\* an index flag of the command line has a value greater than nfields
IndexFlagAboveNFields ==
    \E i \in 2 .. Len(UintFlags) : flags[UintFlags[i]] > flags.nfields

\* C15: every command line on which an index flag has a value greater than
\* nfields, values above 255 included, is rejected by parseConfig with a
\* fatal configuration error.
C15_IndexAboveNFieldsRejected ==
    (pc # "flags" /\ IndexFlagAboveNFields) =>
        /\ cfgErr # nil
        /\ exit = 1
        /\ pc = "exit"

\* what the code does ensure: an index flag greater than nfields that fits a
\* uint8 is rejected
NarrowIndexAboveNFieldsRejected ==
    (/\ pc # "flags"
     /\ \E i \in 2 .. Len(UintFlags) :
            /\ flags[UintFlags[i]] > flags.nfields
            /\ flags[UintFlags[i]] <= MaxUint8) =>
        /\ cfgErr # nil
        /\ exit = 1

====
